---- MODULE Spec2Model ----
(***************************************************************************)
(* EMSMiner (main.go): the mining loop of Mine, the Guidemap accelerator,  *)
(* the seedpack sort and the .EMS serialisation of SaveEMSFile.            *)
(*                                                                         *)
(* Numbers.  A float64 is modelled as a binary fixed-point number: the     *)
(* integer n stands for the value n / One, One = 2^FracBits.  Every such   *)
(* value is exactly representable as a float64.  Products are rounded to   *)
(* the nearest representable value, as each float64 operation rounds, so   *)
(* orbits of z = z*z + c escape, run into exact cycles or hit the ceiling  *)
(* as the orbits of the program do.  A complex128 is a pair <<re, im>>.    *)
(*                                                                         *)
(* Points are written Pt(re, im), in units of 1/1024.                      *)
(*                                                                         *)
(* Clocks are choices: the 60 seconds of GenerateGuidemap may end after    *)
(* any probe, and the time since the last progress report may be on either *)
(* side of 45 seconds.  Not modelled: console output and the MD5 file name *)
(* of SaveEMSFile.                                                         *)
(***************************************************************************)
EXTENDS Integers, Sequences, FiniteSets, TLC

\* ------------------------------------------------------------------ bounds

\* Candidates Mine may complete before the model stops following it (j).
MaxDraws == 4
\* Qualifying points GenerateGuidemap may find before the model stops probing.
MaxBuildFound == 2
\* Longest seedpack handed to Sort / SaveEMSFile in SpecSort.
MaxPack == 3
\* Guidemap operations followed in SpecGuidemap.
MaxOps == 3
\* Sort calls applied to one seedpack.
MaxSorts == 2

\* --------------------------------------------------------------- numbers

\* Fractional bits of the fixed-point stand-in for float64.
FracBits == 10
One == 2 ^ FracBits
Half == One \div 2

\* A rounded product: a * b, to the nearest representable value.
Mul(a, b) == (a * b + Half) \div One

\* The point re/1024 + (im/1024)i.
Pt(re, im) == <<(re * One) \div 1024, (im * One) \div 1024>>

Re(p) == p[1]
Im(p) == p[2]
Complex(re, im) == <<re, im>>

\* z*z + c on complex128 (Go: real = a*a - b*b, imag = a*b + b*a).
Recur(zz, cc) ==
  Complex(Mul(Re(zz), Re(zz)) - Mul(Im(zz), Im(zz)) + Re(cc),
          Mul(Re(zz), Im(zz)) + Mul(Im(zz), Re(zz)) + Im(cc))

\* b := 2.00 * 2.00
b == 4 * One

\* (real(z)*real(z)) + (imag(z)*imag(z)) <= b fails: the orbit has bailed out.
Bailout(zz) == Mul(Re(zz), Re(zz)) + Mul(Im(zz), Im(zz)) > b

\* cmplx.Abs(z) > 2, the escape test of GenerateGuidemap (hypot, unrounded).
CmplxAbsGT2(zz) == Re(zz) * Re(zz) + Im(zz) * Im(zz) > 4 * One * One

\* math.Round of the quotient p / q (q > 0): nearest integer, halves away
\* from zero.
RoundDiv(p, q) ==
  IF p >= 0 THEN (2 * p + q) \div (2 * q) ELSE -((2 * (-p) + q) \div (2 * q))

\* -------------------------------------------------------------- Guidemap

\* GenerateGuidemap(51): itsWidth = itsHeight = size.
GuidemapSize == 51
itsWidth == GuidemapSize
itsHeight == GuidemapSize
\* itsMinR, itsMaxR = -2.00, 2.00 and itsMinI, itsMaxI = -2.00, 2.00
itsMinR == -2 * One
itsMaxR == 2 * One
itsMinI == -2 * One
itsMaxI == 2 * One

\* int(math.Round((coord - itsMin) / itsDel)), itsDel = (itsMax - itsMin) / n,
\* before clamping.
RawCell(coord, lo, hi, n) == RoundDiv((coord - lo) * n, hi - lo)

ClampLowMut(v, n) == IF v > n - 1 THEN n - 1 ELSE v
\* if x < 0 { x = 0 }; if x > n-1 { x = n-1 }
Clamp(v, n) == IF v < 0 THEN 0 ELSE IF v > n - 1 THEN n - 1 ELSE v

CellX(p) == Clamp(RawCell(Re(p), itsMinR, itsMaxR, itsWidth), itsWidth)
CellY(p) == Clamp(RawCell(Im(p), itsMinI, itsMaxI, itsHeight), itsHeight)

\* y*this.itsWidth + x
CellIndex(p) == CellY(p) * itsWidth + CellX(p)

\* itsData is modelled as the set of indices whose cell holds true.
\* Mark: this.itsData[y*this.itsWidth+x] = true
GuidemapMark(data, p) == data \cup {CellIndex(p)}

\* Check: return this.itsData[y*this.itsWidth+x]
GuidemapCheck(data, p) == CellIndex(p) \in data

\* -------------------------------------------------------------- seedpack

\* NewSeedpack: make([]complex128, howmany), zero values.
NewSeedpack(n) == [k \in 1..n |-> Complex(0, 0)]

LessMut(p, q) == IF Re(p) # Re(q) THEN Re(p) < Re(q) ELSE Im(p) > Im(q)
\* The comparison handed to sort.SliceStable.
Less(p, q) == IF Re(p) # Re(q) THEN Re(p) < Re(q) ELSE Im(p) < Im(q)

\* Stable insertion of p into the sorted sequence s: after every element
\* that is not greater than p.
RECURSIVE Insert(_, _)
Insert(s, p) ==
  IF s = <<>> THEN <<p>>
  ELSE IF Less(p, s[1]) THEN <<p>> \o s
  ELSE <<s[1]>> \o Insert(Tail(s), p)

\* seedpack.Sort: sort.SliceStable under Less.
RECURSIVE Sort(_)
Sort(s) == IF s = <<>> THEN <<>> ELSE Insert(Sort(SubSeq(s, 1, Len(s) - 1)), s[Len(s)])

\* ------------------------------------------------------------ serialiser

\* The header literal "@DM.EMS{codex.apeirography.art} " as written by
\* binary.Write(buf, binary.LittleEndian, []byte(...)): one byte per character.
Header ==
  <<64, 68, 77, 46, 69, 77, 83, 123, 99, 111, 100, 101, 120, 46, 97, 112,
    101, 105, 114, 111, 103, 114, 97, 112, 104, 121, 46, 97, 114, 116, 125, 32>>

\* floor(log2(m)) for m >= 1.
RECURSIVE Log2(_)
Log2(m) == IF m < 2 THEN 0 ELSE 1 + Log2(m \div 2)

\* IEEE-754 binary64 of the value n / One, least significant byte first:
\* sign, biased exponent (11 bits), fraction (52 bits).  For |n| < 2^13 the
\* fraction has at most its top 12 bits set.
Float64Bytes(n) ==
  IF n = 0 THEN <<0, 0, 0, 0, 0, 0, 0, 0>>
  ELSE LET sign == IF n < 0 THEN 1 ELSE 0
           m    == IF n < 0 THEN -n ELSE n
           e    == Log2(m)
           expo == e - FracBits + 1023
           top  == (m - 2 ^ e) * 2 ^ (12 - e)
       IN  <<0, 0, 0, 0, 0, top % 256,
             (expo % 16) * 16 + top \div 256, sign * 128 + expo \div 16>>

ComplexBytesMut(p) == Float64Bytes(Re(p))
\* binary.Write(buf, binary.LittleEndian, c) for a complex128: real, then imag.
ComplexBytes(p) == Float64Bytes(Re(p)) \o Float64Bytes(Im(p))

\* for _, c := range seeds { binary.Write(buf, binary.LittleEndian, c) }
RECURSIVE Payload(_)
Payload(s) == IF s = <<>> THEN <<>> ELSE ComplexBytes(s[1]) \o Payload(Tail(s))

\* The buffer SaveEMSFile hands to outfile.Write, for the sorted seeds.
EMSBytes(s) == Header \o Payload(s)

\* ----------------------------------------------------------------- state

VARIABLES
  pc,            \* where the program is: "Mine", "GenerateGuidemap", "CheckNewC",
                 \* "IterateZ", "IterateZDone", "Return", "Saved", a panic, or
                 \* "Sort" / "Guidemap" in the specifications of the parts
  howmany, min, max,                           \* the configuration (flags)
  seeds, sidx, found, realmin, realmax, j,     \* Mine
  relfound, updateInterval,                    \* Mine, progress cadence
  z, c, oldz, l, i, repcheck, repcheckstart,   \* Mine, one candidate
  itsData,                                     \* Guidemap.itsData (indices holding true)
  gfound, limmin, limmax,                      \* GenerateGuidemap (found, limmin, limmax)
  file,                                        \* the bytes handed to outfile.Write
  \* history, read by the properties only
  steps,         \* executions of z = z*z + c for the current candidate
  checkIdx,      \* iteration indices at which repcheck == 0 fired, this candidate
  gmIdx,         \* iteration indices at which guidemap.Check was called, this candidate
  outcome,       \* how the inner loop ended: "cycle", "pruned", "stopped"
  accepts,       \* the accepted candidates: [c, depth, slot], in order
  drawn,         \* a random candidate has been drawn
  packIn,        \* the seedpack as it was before its first Sort
  nSorts,        \* Sort calls applied to seeds
  sorted1,       \* seeds as the first Sort left them
  hist           \* Guidemap operations: [op, p, x, y, before, after, result]

cfgVars == <<howmany, min, max>>
mineVars == <<seeds, sidx, found, realmin, realmax, j, relfound, updateInterval>>
evalVars == <<z, c, oldz, l, i, repcheck, repcheckstart>>
buildVars == <<gfound, limmin, limmax>>
evalHist == <<steps, checkIdx, gmIdx, outcome>>
sortHist == <<packIn, nSorts, sorted1>>
vars == <<pc, cfgVars, mineVars, evalVars, itsData, buildVars, file,
          evalHist, accepts, drawn, sortHist, hist>>

\* ---------------------------------------------------------------- inputs

\* The configurations followed: [howmany, min, max].
Configs ==
  { [howmany |-> 2, min |-> 2, max |-> 4],
    [howmany |-> 2, min |-> 40, max |-> 105],
    [howmany |-> 1, min |-> 3, max |-> 104],
    [howmany |-> 0, min |-> 2, max |-> 4],
    [howmany |-> 1, min |-> 5, max |-> 4],
    [howmany |-> 1, min |-> 1, max |-> 4] }

\* The values complex(rand.Float64()*4-2, rand.Float64()*2) is drawn from, in
\* units of 1/One: real part in [-2, 2), imaginary part in [0, 2).
\* With FracBits = 10:
\*   Pt(0, 0)        fixed point 0                (never escapes)
\*   Pt(-1024, 0)    0, -1, 0, -1, ...            (never escapes)
\*   Pt(1024, 1024)  escapes at step 2
\*   Pt(1024, 0)     escapes at step 3
\*   Pt(-681, 462)   escapes at step 40,  cell (17, 31)
\*   Pt(96, 629)     escapes at step 104, cell (27, 33)
\*   Pt(-672, 457)   escapes at step 105, cell (17, 31)
\*   Pt(-673, 444)   escapes at step 107, cell (17, 31)
Candidates ==
  { Pt(0, 0), Pt(-1024, 0), Pt(1024, 1024), Pt(1024, 0),
    Pt(-681, 462), Pt(96, 629), Pt(-672, 457), Pt(-673, 444) }

\* int(float64(90)/seconds) for 0 < seconds < 45 is 2 or more; 1 stands for
\* seconds = 0, where updateInterval is not multiplied.
Factors == {1, 2, 3}

\* ------------------------------------------------------------------- Mine

\* The three configuration checks at the head of Mine.
ConfigErrorMut(h, mn, mx) == h < 0 \/ mx < mn \/ mn < 2
ConfigError(h, mn, mx) == h < 1 \/ mx < mn \/ mn < 2

\* realmin, realmax := max, min
InitTrackersMut(mn, mx) == <<mn, mx>>
InitTrackers(mn, mx) == <<mx, mn>>

\* i = -1: the value i takes when a candidate is abandoned at iteration n.
AbandonMut(n) == n
Abandon(n) == -1

\* repcheckstart = 2
RepcheckStart0 == 2

\* if i%8 == 0: the check also consults the guidemap.
GuideDueMut(n) == n % 4 = 0
GuideDue(n) == n % 8 = 0

\* if i < l && (real(z)*real(z))+(imag(z)*imag(z)) <= b { goto IterateZ }
ContinueMut(n, lim, zz) == n <= lim /\ ~Bailout(zz)
Continue(n, lim, zz) == n < lim /\ ~Bailout(zz)

\* if i >= min && i <= max
InRangeMut(n, mn, mx) == n >= mn /\ n <= mx + 2
InRange(n, mn, mx) == n >= mn /\ n <= mx

\* if found < howmany { goto CheckNewC }
LoopAgainMut(f, h) == f <= h
LoopAgain(f, h) == f < h

\* limmin := 32; limmax := limmin * 2; the thresholds double every 1000 finds.
LimMin0 == 32
DoubleEvery == 1000

\* The inner loop of GenerateGuidemap: the idx at which cmplx.Abs(z) > 2, or
\* -1 when idx reaches lim + 2 first.
RECURSIVE ProbeFrom(_, _, _, _)
ProbeFrom(zz, p, idx, lim) ==
  IF idx >= lim + 2 THEN -1
  ELSE LET z1 == Recur(zz, p)
       IN  IF CmplxAbsGT2(z1) THEN idx ELSE ProbeFrom(z1, p, idx + 1, lim)

Init ==
  /\ pc = "Mine"
  /\ \E cfg \in Configs :
       /\ howmany = cfg.howmany
       /\ min = cfg.min
       /\ max = cfg.max
  /\ seeds = <<>> /\ sidx = 0 /\ found = 0 /\ realmin = 0 /\ realmax = 0 /\ j = 0
  /\ relfound = 0 /\ updateInterval = 0
  /\ z = Complex(0, 0) /\ c = Complex(0, 0) /\ oldz = Complex(0, 0)
  /\ l = 0 /\ i = 0 /\ repcheck = 0 /\ repcheckstart = 0
  /\ itsData = {}
  /\ gfound = 0 /\ limmin = 0 /\ limmax = 0
  /\ file = <<>>
  /\ steps = 0 /\ checkIdx = <<>> /\ gmIdx = <<>> /\ outcome = "none"
  /\ accepts = <<>> /\ drawn = FALSE
  /\ packIn = <<>> /\ nSorts = 0 /\ sorted1 = <<>>
  /\ hist = <<>>

\* Mine, lines 95-105: a configuration error panics.
MinePanic ==
  /\ pc = "Mine"
  /\ ConfigError(howmany, min, max)
  /\ pc' = "panic: configuration"
  /\ UNCHANGED <<cfgVars, mineVars, evalVars, itsData, buildVars, file,
                 evalHist, accepts, drawn, sortHist, hist>>

\* Mine, lines 107-109, and the head of GenerateGuidemap: the seedpack is
\* allocated and the grid is created all false.
MineStart ==
  /\ pc = "Mine"
  /\ ~ConfigError(howmany, min, max)
  /\ seeds' = NewSeedpack(howmany)
  /\ sidx' = 0
  /\ itsData' = {}
  /\ gfound' = 0
  /\ limmin' = LimMin0
  /\ limmax' = LimMin0 * 2
  /\ pc' = "GenerateGuidemap"
  /\ UNCHANGED <<cfgVars, found, realmin, realmax, j, relfound, updateInterval,
                 evalVars, file, evalHist, accepts, drawn, sortHist, hist>>

\* One pass of the time-boxed loop of GenerateGuidemap: a random point is
\* iterated; if it escapes at idx >= limmin it is counted and marked.
BuildProbe ==
  /\ pc = "GenerateGuidemap"
  /\ gfound < MaxBuildFound
  /\ \E p \in Candidates :
       LET idx == ProbeFrom(Complex(0, 0), p, 0, limmax)
           hit == idx >= limmin
           dbl == hit /\ (gfound + 1) % DoubleEvery = 0
       IN  /\ gfound' = IF hit THEN gfound + 1 ELSE gfound
           /\ limmax' = IF dbl THEN limmax * 2 ELSE limmax
           /\ limmin' = IF dbl THEN limmin * 2 ELSE limmin
           /\ itsData' = IF hit THEN GuidemapMark(itsData, p) ELSE itsData
  /\ drawn' = TRUE
  /\ UNCHANGED <<pc, cfgVars, mineVars, evalVars, file, evalHist, accepts,
                 sortHist, hist>>

\* The 60 seconds are over: GenerateGuidemap returns and Mine finishes its
\* initialisation (lines 110-127).
BuildDone ==
  /\ pc = "GenerateGuidemap"
  /\ found' = 0
  /\ realmin' = InitTrackers(min, max)[1]
  /\ realmax' = InitTrackers(min, max)[2]
  /\ j' = 0
  /\ relfound' = 0
  /\ updateInterval' = 1
  /\ gfound' = 0 /\ limmin' = 0 /\ limmax' = 0
  /\ pc' = "CheckNewC"
  /\ UNCHANGED <<cfgVars, seeds, sidx, evalVars, itsData, file, evalHist,
                 accepts, drawn, sortHist, hist>>

\* CheckNewC, lines 130-139: a new candidate is drawn.
CheckNewC ==
  /\ pc = "CheckNewC"
  /\ j < MaxDraws
  /\ \E p \in Candidates : c' = p
  /\ z' = Complex(0, 0)
  /\ l' = max + 2
  /\ i' = 0
  /\ repcheckstart' = RepcheckStart0
  /\ repcheck' = RepcheckStart0
  /\ oldz' = Complex(0, 0)
  /\ steps' = 0 /\ checkIdx' = <<>> /\ gmIdx' = <<>> /\ outcome' = "running"
  /\ drawn' = TRUE
  /\ pc' = "IterateZ"
  /\ UNCHANGED <<cfgVars, mineVars, itsData, buildVars, file, accepts,
                 sortHist, hist>>

\* IterateZ, lines 141-164: one pass of the inner loop.
IterateZ ==
  /\ pc = "IterateZ"
  /\ LET z1     == Recur(z, c)
         due    == repcheck = 0
         cyc    == due /\ oldz = z1
         gdue   == due /\ ~cyc /\ GuideDue(i)
         pruned == gdue /\ ~GuidemapCheck(itsData, c) /\ i % 64 # 0
         rcs1   == IF due /\ ~cyc
                   THEN (IF GuideDue(i) THEN repcheckstart + 2 ELSE repcheckstart + 1)
                   ELSE repcheckstart
         rc1    == IF due THEN rcs1 ELSE repcheck
         i1     == i + 1
     IN  /\ z' = z1
         /\ steps' = steps + 1
         /\ checkIdx' = IF due THEN Append(checkIdx, i) ELSE checkIdx
         /\ gmIdx' = IF gdue THEN Append(gmIdx, i) ELSE gmIdx
         /\ IF cyc
            THEN /\ i' = Abandon(i)
                 /\ outcome' = "cycle"
                 /\ pc' = "IterateZDone"
                 /\ UNCHANGED <<oldz, repcheck, repcheckstart>>
            ELSE IF pruned
            THEN /\ i' = Abandon(i)
                 /\ outcome' = "pruned"
                 /\ oldz' = z1
                 /\ repcheckstart' = rcs1
                 /\ pc' = "IterateZDone"
                 /\ UNCHANGED repcheck
            ELSE /\ oldz' = IF due THEN z1 ELSE oldz
                 /\ repcheckstart' = rcs1
                 /\ repcheck' = rc1 - 1
                 /\ i' = i1
                 /\ IF Continue(i1, l, z1)
                    THEN pc' = "IterateZ" /\ outcome' = "running"
                    ELSE pc' = "IterateZDone" /\ outcome' = "stopped"
  /\ UNCHANGED <<cfgVars, mineVars, c, l, itsData, buildVars, file, accepts,
                 drawn, sortHist, hist>>

\* IterateZDone, lines 168-206: the candidate is accepted or discarded, and
\* the outer loop repeats or ends.  Writing past the end of seeds is a
\* run-time panic (index out of range).
IterateZDone ==
  /\ pc = "IterateZDone"
  /\ IF InRange(i, min, max)
     THEN /\ realmin' = IF i < realmin THEN i ELSE realmin
          /\ realmax' = IF i > realmax THEN i ELSE realmax
          /\ found' = found + 1
          /\ IF sidx >= Len(seeds)
             THEN /\ pc' = "panic: index out of range"
                  /\ relfound' = relfound + 1
                  /\ UNCHANGED <<seeds, sidx, itsData, j, accepts, updateInterval>>
             ELSE /\ seeds' = [seeds EXCEPT ![sidx + 1] = c]
                  /\ sidx' = sidx + 1
                  /\ itsData' = GuidemapMark(itsData, c)
                  /\ accepts' = Append(accepts, [c |-> c, depth |-> i, slot |-> sidx])
                  /\ IF (relfound + 1) % updateInterval = 0
                     THEN /\ relfound' = 0
                          /\ \/ \E f \in Factors :
                                  updateInterval' =
                                    (IF updateInterval > 5
                                     THEN updateInterval * f ELSE updateInterval) + 1
                             \/ UNCHANGED updateInterval
                     ELSE /\ relfound' = relfound + 1
                          /\ UNCHANGED updateInterval
                  /\ j' = j + 1
                  /\ pc' = IF LoopAgain(found + 1, howmany) THEN "CheckNewC" ELSE "Return"
     ELSE /\ j' = j + 1
          /\ pc' = IF LoopAgain(found, howmany) THEN "CheckNewC" ELSE "Return"
          /\ UNCHANGED <<seeds, sidx, found, realmin, realmax, itsData, accepts,
                         relfound, updateInterval>>
  /\ UNCHANGED <<cfgVars, evalVars, buildVars, file, evalHist, drawn,
                 sortHist, hist>>

\* SaveEMSFile, lines 58-87: the seeds are sorted (in place) and the header
\* and the records are written.
SaveEMSFile ==
  /\ pc = "Return"
  /\ seeds' = Sort(seeds)
  /\ file' = EMSBytes(Sort(seeds))
  /\ packIn' = IF nSorts = 0 THEN seeds ELSE packIn
  /\ sorted1' = IF nSorts = 0 THEN Sort(seeds) ELSE sorted1
  /\ nSorts' = nSorts + 1
  /\ pc' = "Saved"
  /\ UNCHANGED <<cfgVars, sidx, found, realmin, realmax, j, relfound,
                 updateInterval, evalVars, itsData, buildVars, evalHist, accepts,
                 drawn, hist>>

\* SaveEMSFile, lines 72-75: os.OpenFile fails and SaveEMSFile panics.
SaveOpenFails ==
  /\ pc = "Return"
  /\ seeds' = Sort(seeds)
  /\ packIn' = IF nSorts = 0 THEN seeds ELSE packIn
  /\ sorted1' = IF nSorts = 0 THEN Sort(seeds) ELSE sorted1
  /\ nSorts' = nSorts + 1
  /\ pc' = "panic: open"
  /\ UNCHANGED <<cfgVars, sidx, found, realmin, realmax, j, relfound,
                 updateInterval, evalVars, itsData, buildVars, file, evalHist,
                 accepts, drawn, hist>>

Next ==
  \/ MinePanic
  \/ MineStart
  \/ BuildProbe
  \/ BuildDone
  \/ CheckNewC
  \/ IterateZ
  \/ IterateZDone
  \/ SaveEMSFile
  \/ SaveOpenFails

Spec == Init /\ [][Next]_vars

\* ------------------------------------------------- the seedpack, alone

\* Points a seedpack is filled with: equal real parts, equal points.
SortPoints == { Pt(-1024, 0), Pt(1024, 0), Pt(1024, 1024), Pt(96, 629) }

\* Every seedpack of 1..MaxPack points.
Packs == UNION { [1..n -> SortPoints] : n \in 1..MaxPack }

\* Mine has returned some seedpack; SaveEMSFile is about to be called.
InitSort ==
  /\ pc = "Return"
  /\ seeds \in Packs
  /\ howmany = Len(seeds) /\ min = 2 /\ max = 4
  /\ sidx = Len(seeds) /\ found = Len(seeds) /\ realmin = 2 /\ realmax = 4 /\ j = 0
  /\ relfound = 0 /\ updateInterval = 1
  /\ z = Complex(0, 0) /\ c = Complex(0, 0) /\ oldz = Complex(0, 0)
  /\ l = 0 /\ i = 0 /\ repcheck = 0 /\ repcheckstart = 0
  /\ itsData = {}
  /\ gfound = 0 /\ limmin = 0 /\ limmax = 0
  /\ file = <<>>
  /\ steps = 0 /\ checkIdx = <<>> /\ gmIdx = <<>> /\ outcome = "none"
  /\ accepts = <<>> /\ drawn = FALSE
  /\ packIn = <<>> /\ nSorts = 0 /\ sorted1 = <<>>
  /\ hist = <<>>

\* seedpack.Sort, lines 228-237, called on seeds.
SortCall ==
  /\ pc \in {"Return", "Saved"}
  /\ nSorts < MaxSorts
  /\ seeds' = Sort(seeds)
  /\ packIn' = IF nSorts = 0 THEN seeds ELSE packIn
  /\ sorted1' = IF nSorts = 0 THEN Sort(seeds) ELSE sorted1
  /\ nSorts' = nSorts + 1
  /\ UNCHANGED <<pc, cfgVars, sidx, found, realmin, realmax, j, relfound,
                 updateInterval, evalVars, itsData, buildVars, file, evalHist,
                 accepts, drawn, hist>>

NextSort ==
  \/ SortCall
  \/ SaveEMSFile

SpecSort == InitSort /\ [][NextSort]_vars

\* ------------------------------------------------- the Guidemap, alone

\* Points handed to Mark and Check: inside the domain, on its corners, on
\* its edge, and outside it.
GridPoints ==
  { <<0, 0>>, Pt(96, 629), <<itsMaxR - 1, itsMaxI - 1>>,
    <<itsMinR, itsMinI>>, <<itsMaxR, itsMaxI>>, <<itsMaxR, itsMinI>>,
    <<-3 * One, 3 * One>>, <<5 * One, -5 * One>> }

\* A grid as GenerateGuidemap creates it, all false.
InitGuidemap ==
  /\ pc = "Guidemap"
  /\ howmany = 1 /\ min = 2 /\ max = 4
  /\ seeds = <<>> /\ sidx = 0 /\ found = 0 /\ realmin = 0 /\ realmax = 0 /\ j = 0
  /\ relfound = 0 /\ updateInterval = 0
  /\ z = Complex(0, 0) /\ c = Complex(0, 0) /\ oldz = Complex(0, 0)
  /\ l = 0 /\ i = 0 /\ repcheck = 0 /\ repcheckstart = 0
  /\ itsData = {}
  /\ gfound = 0 /\ limmin = 0 /\ limmax = 0
  /\ file = <<>>
  /\ steps = 0 /\ checkIdx = <<>> /\ gmIdx = <<>> /\ outcome = "none"
  /\ accepts = <<>> /\ drawn = FALSE
  /\ packIn = <<>> /\ nSorts = 0 /\ sorted1 = <<>>
  /\ hist = <<>>

\* Guidemap.Mark, lines 314-330.
Mark ==
  /\ pc = "Guidemap"
  /\ Len(hist) < MaxOps
  /\ \E p \in GridPoints :
       /\ itsData' = GuidemapMark(itsData, p)
       /\ hist' = Append(hist, [op |-> "Mark", p |-> p,
                                x |-> CellX(p), y |-> CellY(p),
                                before |-> itsData,
                                after |-> GuidemapMark(itsData, p),
                                result |-> TRUE])
  /\ UNCHANGED <<pc, cfgVars, mineVars, evalVars, buildVars, file, evalHist,
                 accepts, drawn, sortHist>>

\* Guidemap.Check, lines 332-348.
Check ==
  /\ pc = "Guidemap"
  /\ Len(hist) < MaxOps
  /\ \E p \in GridPoints :
       hist' = Append(hist, [op |-> "Check", p |-> p,
                             x |-> CellX(p), y |-> CellY(p),
                             before |-> itsData, after |-> itsData,
                             result |-> GuidemapCheck(itsData, p)])
  /\ UNCHANGED <<pc, cfgVars, mineVars, evalVars, itsData, buildVars, file,
                 evalHist, accepts, drawn, sortHist>>

NextGuidemap ==
  \/ Mark
  \/ Check

SpecGuidemap == InitGuidemap /\ [][NextGuidemap]_vars

\* ------------------------------------------------------------ properties

\* The unshortcut escape time of p under ceiling mx + 2: z = z*z + c from
\* z = 0, no cycle check, no guidemap, counting the steps until the orbit
\* bails out or the count reaches the ceiling.
RECURSIVE EscapeFrom(_, _, _, _)
EscapeFrom(zz, p, n, ceiling) ==
  LET z1 == Recur(zz, p)
  IN  IF n + 1 >= ceiling \/ Bailout(z1) THEN n + 1
      ELSE EscapeFrom(z1, p, n + 1, ceiling)

EscapeTime(p, mx) == EscapeFrom(Complex(0, 0), p, 0, mx + 2)

\* The number of k with s[k] = p.
Count(s, p) == Cardinality({k \in 1..Len(s) : s[k] = p})

IsPermutation(s, t) ==
  /\ Len(s) = Len(t)
  /\ \A k \in 1..Len(s) : Count(s, s[k]) = Count(t, s[k])

Depths == {accepts[k].depth : k \in 1..Len(accepts)}

Mining == pc \in {"CheckNewC", "IterateZ", "IterateZDone"}
Returned == pc \in {"Return", "Saved", "panic: open"}

\* C1: every candidate Mine has stored has an unshortcut escape time d with
\* min <= d <= max, and d is the depth Mine recorded for it; until the
\* seedpack is sorted the stored candidates are the filled slots of seeds.
C1_Soundness ==
  /\ \A k \in 1..Len(accepts) :
       LET d == EscapeTime(accepts[k].c, max)
       IN  min <= d /\ d <= max /\ d = accepts[k].depth
  /\ nSorts = 0 =>
       /\ sidx = Len(accepts)
       /\ \A k \in 1..sidx : k <= Len(seeds) /\ seeds[k] = accepts[k].c

\* C1 witness: Mine returned after accepting a seed of depth above 104,
\* whose evaluation went through a cycle check and a guidemap check.
C1_Witness ==
  /\ pc = "Return"
  /\ \E k \in 1..Len(accepts) : accepts[k].depth > 104

\* C2: the next free slot equals the accepted count and is at most howmany;
\* slots are written left to right, once each, below howmany; Mine is in its
\* loop only while found < howmany and has returned only with found = howmany,
\* a seedpack of length howmany and an accepted seed in every slot.
C2_Quota ==
  /\ pc \notin {"Mine", "panic: configuration"} =>
       /\ sidx = found
       /\ found <= howmany
       /\ Len(seeds) = howmany
       /\ Len(accepts) = sidx
  /\ \A k \in 1..Len(accepts) : accepts[k].slot = k - 1 /\ accepts[k].slot < howmany
  /\ nSorts = 0 => \A k \in 1..Len(seeds) :
       seeds[k] = IF k <= sidx THEN accepts[k].c ELSE Complex(0, 0)
  /\ Mining => found < howmany
  /\ Returned =>
       /\ found = howmany
       /\ Len(seeds) = howmany
       /\ IsPermutation(seeds, [k \in 1..Len(accepts) |-> accepts[k].c])
  /\ pc # "panic: index out of range"

\* C2 witness: Mine returned a full seedpack of two seeds after discarding
\* a candidate on the way.
C2_Witness ==
  /\ pc = "Return"
  /\ howmany = 2 /\ found = 2 /\ j = 3
  /\ seeds[1] # seeds[2]

\* C3: with howmany < 1, max < min or min < 2 the program never gets past
\* the panic of Mine: no seedpack, no guidemap, no candidate drawn, no slot
\* written, nothing saved; with a valid configuration Mine does not panic on
\* it.
C3_ConfigFatal ==
  /\ (howmany < 1 \/ max < min \/ min < 2) =>
       /\ pc \in {"Mine", "panic: configuration"}
       /\ ~drawn
       /\ seeds = <<>> /\ sidx = 0 /\ accepts = <<>>
       /\ itsData = {} /\ limmin = 0
       /\ file = <<>> /\ nSorts = 0
  /\ (howmany >= 1 /\ max >= min /\ min >= 2) => pc # "panic: configuration"

\* C3 witness: Mine has panicked on howmany < 1.
C3_Witness == pc = "panic: configuration" /\ howmany < 1

\* C4 as claimed: the written buffer is a 33-byte header and N records of 16
\* bytes, 33 + 16*N bytes in all.
C4_Original ==
  pc = "Saved" =>
    /\ Len(file) = 33 + 16 * Len(seeds)
    /\ (Len(file) - 33) \div 16 = Len(seeds)

\* C4, amended: the written buffer is the 32-byte header literal followed by
\* exactly N records of 16 bytes, the real then the imaginary part of each
\* seed in sorted order as little-endian binary64, and nothing else: its
\* length is 32 + 16*N and N = (length - 32) / 16.
C4_Layout ==
  pc = "Saved" =>
    LET n == Len(seeds)
    IN  /\ Len(file) = 32 + 16 * n
        /\ (Len(file) - 32) \div 16 = n
        /\ \A k \in 1..Len(file) : file[k] \in 0..255
        /\ SubSeq(file, 1, 32) = Header
        /\ file[1] = 64 /\ file[8] = 123 /\ file[31] = 125 /\ file[32] = 32
        /\ \A k \in 1..n :
             /\ SubSeq(file, 32 + 16 * (k - 1) + 1, 32 + 16 * (k - 1) + 8)
                  = Float64Bytes(Re(seeds[k]))
             /\ SubSeq(file, 32 + 16 * (k - 1) + 9, 32 + 16 * k)
                  = Float64Bytes(Im(seeds[k]))
             /\ seeds[k] = <<-One, 0>> =>
                  SubSeq(file, 32 + 16 * (k - 1) + 1, 32 + 16 * k)
                    = <<0, 0, 0, 0, 0, 0, 240, 191, 0, 0, 0, 0, 0, 0, 0, 0>>
             /\ seeds[k] = Pt(96, 629) =>
                  SubSeq(file, 32 + 16 * (k - 1) + 1, 32 + 16 * k)
                    = <<0, 0, 0, 0, 0, 0, 184, 63, 0, 0, 0, 0, 0, 168, 227, 63>>

\* C4 witness: a seedpack of three seeds has been written, 80 bytes.
C4_Witness == pc = "Saved" /\ Len(seeds) = 3 /\ Len(file) = 80

\* C5: once sorted, seeds is a permutation of the seedpack it was, is
\* non-decreasing by real part and, among equal real parts, non-decreasing
\* by imaginary part; sorting it again leaves it as the first Sort left it.
C5_Sorted ==
  nSorts >= 1 =>
    /\ IsPermutation(packIn, seeds)
    /\ \A k \in 1..(Len(seeds) - 1) :
         \/ Re(seeds[k]) < Re(seeds[k + 1])
         \/ Re(seeds[k]) = Re(seeds[k + 1]) /\ Im(seeds[k]) <= Im(seeds[k + 1])
    /\ seeds = sorted1

\* C5 witness: a seedpack of three that was out of order, with two seeds of
\* equal real part in the wrong order, has been sorted twice.
C5_Witness ==
  /\ nSorts = 2
  /\ Len(packIn) = 3
  /\ packIn = <<Pt(1024, 1024), Pt(1024, 0), Pt(-1024, 0)>>
  /\ seeds = <<Pt(-1024, 0), Pt(1024, 0), Pt(1024, 1024)>>

\* C6: before the first acceptance realmin = max and realmax = min; from
\* then on, and at return, realmin is the least and realmax the greatest
\* depth of the accepted seeds, so min <= realmin <= realmax <= max.
C6_ObservedRange ==
  /\ (Mining /\ found = 0) => (realmin = max /\ realmax = min)
  /\ ((Mining \/ Returned) /\ found >= 1) =>
       /\ realmin \in Depths /\ \A d \in Depths : realmin <= d
       /\ realmax \in Depths /\ \A d \in Depths : d <= realmax
       /\ min <= realmin /\ realmin <= realmax /\ realmax <= max
  /\ Returned => found >= 1

\* C6 witness: Mine returned two seeds of different depths, none at max.
C6_Witness ==
  /\ pc = "Return"
  /\ realmin < realmax
  /\ realmax < max

\* C7: for any candidate the recurrence step is executed at most max + 2
\* times; neither the step count nor i exceeds max + 2.
C7_Ceiling ==
  (Mining \/ Returned) => (steps <= max + 2 /\ i <= max + 2)

\* C7 witness: a candidate ran into the ceiling: max + 2 steps, no bailout.
C7_Witness ==
  /\ pc = "IterateZDone"
  /\ steps = max + 2
  /\ ~Bailout(z)

\* C8: every Mark and Check accesses one cell with column in [0, width-1]
\* and row in [0, height-1], the corners and the points outside the domain
\* the extreme cells; Mark sets that cell and no other, Check changes none
\* and returns the cell's value; cells that are true stay true; Mark(p) after
\* Mark(p) leaves the grid as the first left it.
C8_Guidemap ==
  /\ \A k \in 1..Len(hist) :
       LET h == hist[k]
           idx == h.y * itsWidth + h.x
       IN  /\ h.x \in 0..(itsWidth - 1)
           /\ h.y \in 0..(itsHeight - 1)
           /\ idx \in 0..(itsWidth * itsHeight - 1)
           /\ h.before \subseteq h.after
           /\ h.op = "Mark" => h.after = h.before \cup {idx}
           /\ h.op = "Check" => (h.after = h.before /\ h.result = (idx \in h.before))
           /\ h.p = <<itsMaxR, itsMaxI>> => (h.x = itsWidth - 1 /\ h.y = itsHeight - 1)
           /\ h.p = <<itsMinR, itsMinI>> => (h.x = 0 /\ h.y = 0)
           /\ h.p = <<-3 * One, 3 * One>> => (h.x = 0 /\ h.y = itsHeight - 1)
           /\ h.p = <<0, 0>> => (h.x = 26 /\ h.y = 26)
           /\ k = 1 => h.before = {}
           /\ k > 1 => h.before = hist[k - 1].after
           /\ k = Len(hist) => h.after = itsData
           /\ (k > 1 /\ h.op = "Mark" /\ hist[k - 1].op = "Mark" /\ hist[k - 1].p = h.p)
                => h.after = h.before

\* C8 witness: a point outside the domain was marked twice and then checked.
C8_Witness ==
  /\ Len(hist) = 3
  /\ hist[1].op = "Mark" /\ hist[1].p = <<-3 * One, 3 * One>>
  /\ hist[2].op = "Mark" /\ hist[2].p = <<-3 * One, 3 * One>>
  /\ hist[3].op = "Check" /\ hist[3].p = <<-3 * One, 3 * One>> /\ hist[3].result

\* C9 as claimed: the inner loop ends with the sentinel -1 or with the
\* iteration count of an escape; a candidate that reached the ceiling
\* without bailout ends with the sentinel, so a result >= 0 is an escape.
C9_Original ==
  pc = "IterateZDone" =>
    /\ i = -1 \/ (i >= 0 /\ Bailout(z))
    /\ (steps = max + 2 /\ ~Bailout(z)) => i = -1

\* C9, amended: the inner loop ends with -1 exactly when an exact cycle was
\* detected or the orbit was guidemap-pruned; otherwise with the number of
\* steps executed, which is the unshortcut escape time: the iteration count
\* of the escape, or max + 2 when the ceiling was reached (bailout or not).
\* Every result from 0 to max + 1 is a confirmed escape count.
C9_Result ==
  pc = "IterateZDone" =>
    /\ outcome \in {"cycle", "pruned", "stopped"}
    /\ outcome \in {"cycle", "pruned"} <=> i = -1
    /\ outcome = "cycle" => oldz = z
    /\ outcome = "pruned" => ~GuidemapCheck(itsData, c)
    /\ outcome = "stopped" =>
         /\ i = steps
         /\ 1 <= i /\ i <= max + 2
         /\ i = EscapeTime(c, max)
         /\ Bailout(z) \/ i = max + 2
    /\ (0 <= i /\ i <= max + 1) => Bailout(z)

\* C9 witness: a candidate reached the ceiling without bailout and the
\* loop ended with max + 2, not with -1.
C9_Witness ==
  /\ pc = "IterateZDone"
  /\ outcome = "stopped"
  /\ i = max + 2
  /\ ~Bailout(z)

\* The first thirteen check indices.
Schedule == <<2, 5, 9, 14, 20, 27, 35, 44, 54, 65, 77, 90, 104>>

\* C10: the checks of one evaluation fall at 2, 5, 9, ..., 90, 104 and the
\* guidemap is first consulted at 104; a candidate of unshortcut escape depth
\* d <= 104, d <= max + 1 ends the inner loop with exactly d, whatever the
\* guidemap holds; with max <= 104 a candidate is in [min, max] for Mine if
\* and only if its unshortcut escape depth is.
C10_Shallow ==
  /\ \A k \in 1..Len(checkIdx) : k <= 13 => checkIdx[k] = Schedule[k]
  /\ \A k \in 1..Len(gmIdx) : gmIdx[k] >= 104
  /\ gmIdx # <<>> => gmIdx[1] = 104
  /\ pc = "IterateZDone" =>
       LET d == EscapeTime(c, max)
       IN  /\ (d <= 104 /\ d <= max + 1) => i = d
           /\ max <= 104 => ((min <= i /\ i <= max) <=> (min <= d /\ d <= max))

\* C10 witness: a candidate of depth 104 in a cell the guidemap does not
\* hold ended the inner loop with 104, after the twelve checks before 104.
C10_Witness ==
  /\ pc = "IterateZDone"
  /\ i = 104
  /\ ~GuidemapCheck(itsData, c)
  /\ Len(checkIdx) = 12

====
